---- MODULE Spec2Model ----
\* Model of python/ray/experimental/signal.py: send / receive / forget / reset
\* over Redis streams, with one cursor dictionary (signal_counters) per worker.
EXTENDS Integers, Sequences, FiniteSets, TLC

\* ---------------------------------------------------------------------------
\* Bounds
\* ---------------------------------------------------------------------------
\* Largest number of entries the Redis streams hold together.
MaxEntries == 3

\* ---------------------------------------------------------------------------
\* Values
\* ---------------------------------------------------------------------------
ACTOR_DIED_STR == "ACTOR_DIED_SIGNAL"

\* Signal objects a producer passes to send().
Signals == {"A", "B"}

\* A signal object whose pickle the consumer cannot load (its class is not
\* importable there): cloudpickle.loads raises on it.
Unloadable == "U"

\* What receive() puts in a pair for an entry holding ACTOR_DIED_STR.
ActorDiedSignal == "ActorDiedSignal()"

\* Binary ids of the actor and of the task that produce signals.
ActorId == "id:a1"
TaskId == "id:t1"
NilId == "id:nil"

\* The worker processes that call send(): one runs methods of actor a1, the
\* other runs the plain task t1.
ActorWorker == [actor_id |-> ActorId, current_task_id |-> "id:t9"]
TaskWorker == [actor_id |-> NilId, current_task_id |-> TaskId]
Producers == {ActorWorker, TaskWorker}

\* The worker processes that call receive(), forget() and reset().
Consumers == {"driver", "worker2"}

\* Source handles: two handles of actor a1, two objects returned by task t1
\* and the id of task t1.
HandleA1 == [type |-> "ActorHandle", id |-> ActorId, copy |-> 1]
HandleA2 == [type |-> "ActorHandle", id |-> ActorId, copy |-> 2]
Object1 == [type |-> "ObjectID", id |-> "obj:t1:1", copy |-> 1]
Object2 == [type |-> "ObjectID", id |-> "obj:t1:2", copy |-> 1]
TaskHandle == [type |-> "TaskID", id |-> TaskId, copy |-> 1]

\* The lists of sources passed to receive() and forget().
SourceLists ==
    { <<HandleA1>>,
      <<HandleA1, HandleA2>>,
      <<Object1, HandleA1, Object2, TaskHandle>> }

\* A timeout argument: None, or a number of seconds written as
\* hi * 10^12 seconds + us microseconds.
TimeoutNone == [isNone |-> TRUE, hi |-> 0, us |-> 0]
Seconds(us) == [isNone |-> FALSE, hi |-> 0, us |-> us]
Timeouts == { TimeoutNone, Seconds(-1000000), Seconds(0), Seconds(500),
              Seconds(2500) }

\* ---------------------------------------------------------------------------
\* Conversions
\* ---------------------------------------------------------------------------
\* ID.hex(): the hexadecimal text of a binary id.
hex(id) ==
    CASE id = ActorId -> "a1"
      [] id = TaskId -> "t1"
      [] id = "id:t9" -> "t9"
      [] id = NilId -> "ff"

\* cloudpickle.dumps
cloudpickle_dumps(signal) ==
    CASE signal = "A" -> "pickle:A"
      [] signal = "B" -> "pickle:B"
      [] signal = Unloadable -> "pickle:U"

\* cloudpickle.loads raises on these bytes.
cloudpickle_loads_raises(bytes) == bytes = "pickle:U"

\* cloudpickle.loads
cloudpickle_loads(bytes) ==
    CASE bytes = "pickle:A" -> "A"
      [] bytes = "pickle:B" -> "B"

\* ray.utils.binary_to_hex
binary_to_hex(bytes) ==
    CASE bytes = "pickle:A" -> "7041"
      [] bytes = "pickle:B" -> "7042"
      [] bytes = "pickle:U" -> "7055"
      [] bytes = ActorId -> "a1"
      [] bytes = TaskId -> "t1"

\* ray.utils.hex_to_binary raises on text that is not hexadecimal.
hex_to_binary_raises(text) == text = ACTOR_DIED_STR

\* ray.utils.hex_to_binary
hex_to_binary(text) ==
    CASE text = "7041" -> "pickle:A"
      [] text = "7042" -> "pickle:B"
      [] text = "7055" -> "pickle:U"
      [] text = "a1" -> ActorId
      [] text = "t1" -> TaskId

\* ray._raylet.compute_task_id: the task that created an object.
compute_task_id(object_id) ==
    CASE object_id = "obj:t1:1" -> TaskId
      [] object_id = "obj:t1:2" -> TaskId

\* The keys of the Redis streams the model holds.
Keys == {"a1", "t1"}

Range(seq) == { seq[i] : i \in 1..Len(seq) }

\* ---------------------------------------------------------------------------
\* State
\* ---------------------------------------------------------------------------
VARIABLES
    redis,                \* key -> the stream's entries (payloads); the id of
                          \* an entry is its position, ids start at 1
    signal_counters,      \* consumer -> dict: binary id -> last id consumed
    has_signal_counters,  \* consumer -> hasattr(global_worker, "signal_counters")
    last,                 \* the call executed by the last step and its outcome
    delivered,            \* history: consumer -> key -> ids of the entries
                          \* receive() returned to the consumer since its
                          \* last reset
    seen,                 \* history: consumer -> key -> ids of the entries a
                          \* receive() or forget() of the consumer read since
                          \* its last reset
    justReset,            \* history: consumer -> its latest call that reached
                          \* the store or the cursors was reset()
    calls                 \* thread of the driver -> the receive() or forget()
                          \* the thread is in: where it is, its arguments,
                          \* the query it sent and the reply it got

vars == <<redis, signal_counters, has_signal_counters, last, delivered, seen,
          justReset, calls>>

\* The threads of the driver process that call receive() and forget() at the
\* same time; they share global_worker.signal_counters.
Threads == {"thread1", "thread2"}

\* A thread that is in no call.
Idle == [pc |-> "idle", op |-> "none", sources |-> <<>>, timeout |-> TimeoutNone,
         query |-> <<>>, answers |-> <<>>, issued |-> <<>>]

EmptyDict == [k \in {} |-> 0]

NoQuery == <<>>

\* The record of a call: who made it with which arguments, whether it was the
\* caller's first call after a reset(), what it raised, the query it sent, the
\* reply and what it returned.
Call(op, who, sources, timeout, after_reset, raised, query, answers, results) ==
    [op |-> op, who |-> who, sources |-> sources, timeout |-> timeout,
     after_reset |-> after_reset, raised |-> raised, query |-> query,
     answers |-> answers, results |-> results]

Init ==
    /\ redis = [k \in Keys |-> <<>>]
    /\ signal_counters = [c \in Consumers |-> EmptyDict]
    /\ has_signal_counters = [c \in Consumers |-> FALSE]
    /\ last = Call("init", "nobody", <<>>, TimeoutNone, FALSE, "none", NoQuery,
                   <<>>, <<>>)
    /\ justReset = [c \in Consumers |-> FALSE]
    /\ delivered = [c \in Consumers |-> [k \in Keys |-> {}]]
    /\ seen = [c \in Consumers |-> [k \in Keys |-> {}]]
    /\ calls = [th \in Threads |-> Idle]

\* ---------------------------------------------------------------------------
\* The Redis commands
\* ---------------------------------------------------------------------------
\* XADD key * signal value: the stream with one more entry at its end.
XADD(store, key, value) == [store EXCEPT ![key] = Append(@, value)]

\* The entries of a stream with an id greater than id, oldest first, each as
\* <<id, <<"signal", value>>>>.
EntriesAfter(store, key, id) ==
    [i \in 1..(Len(store[key]) - id) |->
        <<id + i, <<"signal", store[key][id + i]>>>>]

\* XREAD BLOCK ms STREAMS keys ids, at the moment the read is served: one
\* <<key, entries>> per key that has entries after its id, in the order of
\* keys; the empty reply when no key has any (the read timed out).
XREAD(store, keys, ids) ==
    LET F[i \in 0..Len(keys)] ==
            IF i = 0 THEN <<>>
            ELSE IF EntriesAfter(store, keys[i], ids[i]) = <<>> THEN F[i - 1]
            ELSE Append(F[i - 1], <<keys[i], EntriesAfter(store, keys[i], ids[i])>>)
    IN F[Len(keys)]

\* The calls after the store changed: a read that was blocked gets its reply
\* as soon as one of its streams holds an entry after the id it asked for.
Served(calls_, store) ==
    [th \in DOMAIN calls_ |->
        IF /\ calls_[th].pc = "blocked"
           /\ XREAD(store, calls_[th].query[1].keys, calls_[th].query[1].ids) # <<>>
        THEN [calls_[th] EXCEPT
                 !.pc = "replied",
                 !.answers = XREAD(store, calls_[th].query[1].keys,
                                   calls_[th].query[1].ids)]
        ELSE calls_[th]]

\* ---------------------------------------------------------------------------
\* signal.py
\* ---------------------------------------------------------------------------
_get_task_id(source) ==
    IF source.type = "ActorHandle" THEN source.id
    ELSE IF source.type = "TaskID" THEN source.id
    ELSE compute_task_id(source.id)

\* Variant of source_key: the two branches of the test of actor_id.is_nil()
\* are exchanged.
source_key_Exchanged(worker) ==
    IF worker.actor_id = NilId THEN hex(worker.actor_id)
    ELSE hex(worker.current_task_id)

\* send(): the key of the stream the calling worker appends to.
source_key(worker) ==
    IF worker.actor_id = NilId THEN hex(worker.current_task_id)
    ELSE hex(worker.actor_id)

\* send(): the value appended.
encoded_signal(signal) == binary_to_hex(cloudpickle_dumps(signal))

\* Variant of TimeoutIsNegative: the test made after the clamp to 1e-3.
TimeoutIsNegative_AfterClamp(timeout) ==
    LET t == IF timeout.isNone THEN [hi |-> 1, us |-> 0]
             ELSE [hi |-> timeout.hi, us |-> timeout.us]
        clamped == IF t.hi = 0 /\ t.us < 1000 THEN [hi |-> 0, us |-> 1000] ELSE t
    IN clamped.hi < 0 \/ (clamped.hi = 0 /\ clamped.us < 0)

\* receive(): timeout < 0, after None was replaced by 10**12.
TimeoutIsNegative(timeout) ==
    LET t == IF timeout.isNone THEN [hi |-> 1, us |-> 0]
             ELSE [hi |-> timeout.hi, us |-> timeout.us]
    IN t.hi < 0 \/ (t.hi = 0 /\ t.us < 0)

\* Variant of timeout_ms: the clamp to 1e-3 is left out.
timeout_ms_NoClamp(timeout) ==
    LET t == IF timeout.isNone THEN [hi |-> 1, us |-> 0]
             ELSE [hi |-> timeout.hi, us |-> timeout.us]
    IN [hi |-> t.hi, ms |-> t.us \div 1000]

\* receive(): timeout_ms, written as hi * 10^15 + ms milliseconds.
timeout_ms(timeout) ==
    LET t == IF timeout.isNone THEN [hi |-> 1, us |-> 0]
             ELSE [hi |-> timeout.hi, us |-> timeout.us]
        clamped == IF t.hi = 0 /\ t.us < 1000 THEN [hi |-> 0, us |-> 1000] ELSE t
    IN [hi |-> clamped.hi, ms |-> clamped.us \div 1000]

\* Variant of task_ids: one key per source, without the dictionary that merges
\* the sources of one stream.
task_ids_PerSource(sources) ==
    [i \in 1..Len(sources) |-> hex(_get_task_id(sources[i]))]

\* receive(): the keys of task_id_to_sources, in the order the dictionary got
\* them.
task_ids(sources) ==
    LET F[i \in 0..Len(sources)] ==
            IF i = 0 THEN <<>>
            ELSE IF hex(_get_task_id(sources[i])) \in Range(F[i - 1]) THEN F[i - 1]
            ELSE Append(F[i - 1], hex(_get_task_id(sources[i])))
    IN F[Len(sources)]

\* receive(): task_id_to_sources[task_id].
task_id_to_sources(sources, task_id) ==
    SelectSeq(sources, LAMBDA s : hex(_get_task_id(s)) = task_id)

\* signal_counters[key] of a defaultdict(lambda: b"0"): the dictionary after
\* the lookup, which stores the default for a missing key.
Touch(counters, key) ==
    IF key \in DOMAIN counters THEN counters ELSE (key :> 0) @@ counters

\* The value signal_counters[key] yields.
Lookup(counters, key) == IF key \in DOMAIN counters THEN counters[key] ELSE 0

\* receive(): the dictionary after the query was built, which looks up the
\* cursor of every key.
TouchAll(counters, keys) ==
    LET F[i \in 0..Len(keys)] ==
            IF i = 0 THEN counters
            ELSE Touch(F[i - 1], hex_to_binary(keys[i]))
    IN F[Len(keys)]

\* receive(): the ids put in the query, one per key.
query_ids(counters, keys) ==
    [i \in 1..Len(keys) |-> Lookup(counters, hex_to_binary(keys[i]))]

\* Variant of worker_signal_counters: the dictionary is created anew by every
\* call.
worker_signal_counters_Always(counters, has_counters) == EmptyDict

\* receive(): global_worker.signal_counters after "if not hasattr(...)": a new
\* empty defaultdict when the worker has none yet.
worker_signal_counters(counters, has_counters) ==
    IF ~has_counters THEN EmptyDict ELSE counters

\* receive(): cloudpickle.loads(ray.utils.hex_to_binary(value)) raises.
LoadRaises(value) ==
    hex_to_binary_raises(value) \/ cloudpickle_loads_raises(hex_to_binary(value))

\* Variant of ProcessEntryForSource: the cursor is set to the id after r's.
ProcessEntryForSource_NextId(st, task_id, r, s) ==
    IF st.raised # "none" THEN st
    ELSE IF r[2][2] = ACTOR_DIED_STR
    THEN [st EXCEPT !.results = Append(@, <<s, ActorDiedSignal>>)]
    ELSE IF LoadRaises(r[2][2])
    THEN [st EXCEPT !.counters = (hex_to_binary(task_id) :> r[1] + 1) @@ @,
                    !.raised = "DecodeError"]
    ELSE [st EXCEPT !.counters = (hex_to_binary(task_id) :> r[1] + 1) @@ @,
                    !.results = Append(@, <<s, cloudpickle_loads(
                                                  hex_to_binary(r[2][2]))>>)]

\* Variant of ProcessEntryForSource: the termination test looks at the name of
\* the field, r[1][0], instead of its value.
ProcessEntryForSource_FieldName(st, task_id, r, s) ==
    IF st.raised # "none" THEN st
    ELSE IF r[2][1] = ACTOR_DIED_STR
    THEN [st EXCEPT !.results = Append(@, <<s, ActorDiedSignal>>)]
    ELSE IF LoadRaises(r[2][2])
    THEN [st EXCEPT !.counters = (hex_to_binary(task_id) :> r[1]) @@ @,
                    !.raised = "DecodeError"]
    ELSE [st EXCEPT !.counters = (hex_to_binary(task_id) :> r[1]) @@ @,
                    !.results = Append(@, <<s, cloudpickle_loads(
                                                  hex_to_binary(r[2][2]))>>)]

\* receive(): the body of "for s in task_source_list" for one entry r and one
\* source s, on st = [counters, results, raised]; nothing more is done once
\* an exception was raised. The cursor is assigned before the value is
\* loaded.
ProcessEntryForSource(st, task_id, r, s) ==
    IF st.raised # "none" THEN st
    ELSE IF r[2][2] = ACTOR_DIED_STR
    THEN [st EXCEPT !.results = Append(@, <<s, ActorDiedSignal>>)]
    ELSE IF LoadRaises(r[2][2])
    THEN [st EXCEPT !.counters = (hex_to_binary(task_id) :> r[1]) @@ @,
                    !.raised = "DecodeError"]
    ELSE [st EXCEPT !.counters = (hex_to_binary(task_id) :> r[1]) @@ @,
                    !.results = Append(@, <<s, cloudpickle_loads(
                                                  hex_to_binary(r[2][2]))>>)]

\* Variant of ProcessEntry: only the first source of the stream gets a pair.
ProcessEntry_FirstSourceOnly(st, task_id, r, task_source_list) ==
    ProcessEntryForSource(st, task_id, r, task_source_list[1])

\* receive(): "for s in task_source_list" for one entry r.
ProcessEntry(st, task_id, r, task_source_list) ==
    LET F[k \in 0..Len(task_source_list)] ==
            IF k = 0 THEN st
            ELSE ProcessEntryForSource(F[k - 1], task_id, r, task_source_list[k])
    IN F[Len(task_source_list)]

\* Variant of ProcessAnswer: the entries are taken newest first.
ProcessAnswer_NewestFirst(st, answer, sources) ==
    LET n == Len(answer[2])
        F[j \in 0..n] ==
            IF j = 0 THEN st
            ELSE ProcessEntry(F[j - 1], answer[1], answer[2][n + 1 - j],
                              task_id_to_sources(sources, answer[1]))
    IN F[n]

\* receive(): "for r in answer[1]" for one answer.
ProcessAnswer(st, answer, sources) ==
    LET F[j \in 0..Len(answer[2])] ==
            IF j = 0 THEN st
            ELSE ProcessEntry(F[j - 1], answer[1], answer[2][j],
                              task_id_to_sources(sources, answer[1]))
    IN F[Len(answer[2])]

\* receive(): "for i, answer in enumerate(answers)".
ProcessAnswers(counters, answers, sources) ==
    LET F[i \in 0..Len(answers)] ==
            IF i = 0 THEN [counters |-> counters, results |-> <<>>,
                           raised |-> "none"]
            ELSE ProcessAnswer(F[i - 1], answers[i], sources)
    IN F[Len(answers)]

\* receive(sources, timeout) called by a worker whose signal_counters is
\* counters, with the read served from store: what is raised, the query, the
\* reply, the dictionary afterwards and the list returned.
receive(store, counters, has_counters, sources, timeout) ==
    IF TimeoutIsNegative(timeout)
    THEN [raised |-> "ValueError", has |-> has_counters, counters |-> counters,
          query |-> NoQuery, answers |-> <<>>, results |-> <<>>]
    ELSE
        LET signal_counters_ == worker_signal_counters(counters, has_counters)
            keys == task_ids(sources)
            ids == query_ids(signal_counters_, keys)
            touched == TouchAll(signal_counters_, keys)
            answers == XREAD(store, keys, ids)
            done == ProcessAnswers(touched, answers, sources)
        IN [raised |-> done.raised, has |-> TRUE, counters |-> done.counters,
            query |-> <<[timeout_ms |-> timeout_ms(timeout), keys |-> keys,
                         ids |-> ids]>>,
            answers |-> answers,
            results |-> IF done.raised = "none" THEN done.results ELSE <<>>]

\* Variant of receive_transport_error: the failed call leaves a new empty
\* dictionary of cursors behind.
receive_transport_error_DropsCursors(counters, has_counters, sources, timeout) ==
    LET keys == task_ids(sources)
    IN [raised |-> "ConnectionError", has |-> TRUE, counters |-> EmptyDict,
        query |-> <<[timeout_ms |-> timeout_ms(timeout), keys |-> keys,
                     ids |-> query_ids(EmptyDict, keys)]>>,
        answers |-> <<>>, results |-> <<>>]

\* receive(sources, timeout) when redis_client.execute_command raises a
\* ConnectionError: the query was built, which looked up the cursors, and the
\* exception leaves receive() before any reply is processed.
receive_transport_error(counters, has_counters, sources, timeout) ==
    LET signal_counters_ == worker_signal_counters(counters, has_counters)
        keys == task_ids(sources)
        ids == query_ids(signal_counters_, keys)
        touched == TouchAll(signal_counters_, keys)
    IN [raised |-> "ConnectionError", has |-> TRUE, counters |-> touched,
        query |-> <<[timeout_ms |-> timeout_ms(timeout), keys |-> keys,
                     ids |-> ids]>>,
        answers |-> <<>>, results |-> <<>>]

\* The ids of the entries of key in a reply.
AnswerIds(answers, key) ==
    UNION { { answers[i][2][j][1] : j \in 1..Len(answers[i][2]) } :
            i \in { n \in 1..Len(answers) : answers[n][1] = key } }

\* ---------------------------------------------------------------------------
\* Steps
\* ---------------------------------------------------------------------------
\* The number of entries in the store.
Entries(store) == Len(store["a1"]) + Len(store["t1"])

\* A producer worker calls send(signal).
Send(worker, signal) ==
    /\ Entries(redis) < MaxEntries
    /\ redis' = XADD(redis, source_key(worker), encoded_signal(signal))
    /\ last' = Call("send", source_key(worker), <<>>, TimeoutNone, FALSE, "none",
                    NoQuery, <<>>, <<>>)
    /\ calls' = Served(calls, redis')
    /\ UNCHANGED <<signal_counters, has_signal_counters, delivered, seen, justReset>>

\* The node manager detects that actor a1 died and publishes ACTOR_DIED_STR
\* on the actor's stream.
PublishActorDied ==
    /\ Entries(redis) < MaxEntries
    /\ redis' = XADD(redis, hex(ActorId), ACTOR_DIED_STR)
    /\ last' = Call("actor_died", hex(ActorId), <<>>, TimeoutNone, FALSE, "none",
                    NoQuery, <<>>, <<>>)
    /\ calls' = Served(calls, redis')
    /\ UNCHANGED <<signal_counters, has_signal_counters, delivered, seen, justReset>>

\* Variant of Received: one dictionary of cursors shared by all consumers.
Received_SharedCounters(c, op, sources, timeout, out) ==
    /\ signal_counters' = [d \in Consumers |-> out.counters]
    /\ has_signal_counters' = [d \in Consumers |-> out.has]
    /\ seen' = [seen EXCEPT ![c] =
                   [k \in Keys |-> @[k] \cup AnswerIds(out.answers, k)]]
    /\ delivered' = [delivered EXCEPT ![c] =
                        [k \in Keys |->
                            IF op = "receive" /\ out.raised = "none"
                            THEN @[k] \cup AnswerIds(out.answers, k)
                            ELSE @[k]]]
    /\ last' = Call(op, c, sources, timeout, justReset[c], out.raised, out.query,
                    out.answers, IF op = "forget" THEN <<>> ELSE out.results)
    /\ justReset' = [justReset EXCEPT ![c] = @ /\ out.raised # "none"]
    /\ UNCHANGED redis

\* The effect of a receive() by consumer c whose outcome is out.
Received(c, op, sources, timeout, out) ==
    /\ signal_counters' = [signal_counters EXCEPT ![c] = out.counters]
    /\ has_signal_counters' = [has_signal_counters EXCEPT ![c] = out.has]
    /\ seen' = [seen EXCEPT ![c] =
                   [k \in Keys |-> @[k] \cup AnswerIds(out.answers, k)]]
    /\ delivered' = [delivered EXCEPT ![c] =
                        [k \in Keys |->
                            IF op = "receive" /\ out.raised = "none"
                            THEN @[k] \cup AnswerIds(out.answers, k)
                            ELSE @[k]]]
    /\ last' = Call(op, c, sources, timeout, justReset[c], out.raised, out.query,
                    out.answers, IF op = "forget" THEN <<>> ELSE out.results)
    /\ justReset' = [justReset EXCEPT ![c] = @ /\ out.raised # "none"]
    /\ UNCHANGED redis

\* Consumer c calls receive(sources, timeout).
Receive(c, sources, timeout) ==
    /\ Received(c, "receive", sources, timeout,
                receive(redis, signal_counters[c], has_signal_counters[c],
                        sources, timeout))
    /\ UNCHANGED calls

\* Consumer c calls forget(sources).
Forget(c, sources) ==
    /\ Received(c, "forget", sources, Seconds(0),
                receive(redis, signal_counters[c], has_signal_counters[c],
                        sources, Seconds(0)))
    /\ UNCHANGED calls

\* Consumer c calls receive(sources, timeout) and the connection to Redis
\* fails during the read.
ReceiveFails(c, sources, timeout) ==
    /\ ~TimeoutIsNegative(timeout)
    /\ Received(c, "receive", sources, timeout,
                receive_transport_error(signal_counters[c], has_signal_counters[c],
                                        sources, timeout))
    /\ UNCHANGED calls

\* A producer worker calls send(signal) and the connection to Redis fails
\* during the XADD: the server executed the command or it did not.
SendFails(worker, signal) ==
    /\ Entries(redis) < MaxEntries
    /\ \E executed \in BOOLEAN :
          redis' = IF executed
                   THEN XADD(redis, source_key(worker), encoded_signal(signal))
                   ELSE redis
    /\ last' = Call("send", source_key(worker), <<>>, TimeoutNone, FALSE,
                    "ConnectionError", NoQuery, <<>>, <<>>)
    /\ calls' = Served(calls, redis')
    /\ UNCHANGED <<signal_counters, has_signal_counters, delivered, seen, justReset>>

\* Thread th of consumer c enters receive(sources, timeout), or forget(sources)
\* with timeout 0, and runs it up to the XREAD BLOCK timeout_ms it sends: the
\* server replies at once when a stream holds an entry after its id, and
\* otherwise keeps the read blocked.
Issue(c, th, op, sources, timeout) ==
    /\ calls[th].pc = "idle"
    /\ ~TimeoutIsNegative(timeout)
    /\ LET signal_counters_ == worker_signal_counters(signal_counters[c],
                                                      has_signal_counters[c])
           keys == task_ids(sources)
           ids == query_ids(signal_counters_, keys)
           answers == XREAD(redis, keys, ids)
       IN /\ signal_counters' =
                [signal_counters EXCEPT ![c] = TouchAll(signal_counters_, keys)]
          /\ has_signal_counters' = [has_signal_counters EXCEPT ![c] = TRUE]
          /\ calls' = [calls EXCEPT ![th] =
                          [pc |-> IF answers = <<>> THEN "blocked" ELSE "replied",
                           op |-> op, sources |-> sources, timeout |-> timeout,
                           query |-> <<[timeout_ms |-> timeout_ms(timeout),
                                        keys |-> keys, ids |-> ids]>>,
                           answers |-> answers,
                           issued |-> [k \in Keys |-> Len(redis[k])]]]
    /\ UNCHANGED <<redis, last, delivered, seen, justReset>>

\* The timeout_ms of the blocked read of thread th have passed: the server
\* sends the empty reply.
TimeOut(th) ==
    /\ calls[th].pc = "blocked"
    /\ calls' = [calls EXCEPT ![th].pc = "replied"]
    /\ UNCHANGED <<redis, signal_counters, has_signal_counters, last, delivered,
                   seen, justReset>>

\* Thread th of consumer c got the reply to its read and runs the rest of
\* receive(): it processes the reply on the signal_counters the threads share
\* and returns.
Return(c, th) ==
    /\ calls[th].pc = "replied"
    /\ LET call == calls[th]
           done == ProcessAnswers(signal_counters[c], call.answers, call.sources)
       IN Received(c, call.op, call.sources, call.timeout,
                   [raised |-> done.raised, has |-> TRUE,
                    counters |-> done.counters, query |-> call.query,
                    answers |-> call.answers,
                    results |-> IF done.raised = "none" THEN done.results
                                ELSE <<>>])
    /\ calls' = [calls EXCEPT ![th] = Idle]

\* Variant of Reset: the test of hasattr is inverted, so the cursors of a
\* worker that has some are kept.
Reset_KeepsCursors(c) ==
    /\ signal_counters' =
          [signal_counters EXCEPT ![c] =
              IF ~has_signal_counters[c] THEN EmptyDict ELSE @]
    /\ delivered' = [delivered EXCEPT ![c] = [k \in Keys |-> {}]]
    /\ seen' = [seen EXCEPT ![c] = [k \in Keys |-> {}]]
    /\ last' = Call("reset", c, <<>>, TimeoutNone, FALSE, "none", NoQuery, <<>>,
                    <<>>)
    /\ justReset' = [justReset EXCEPT ![c] = TRUE]
    /\ UNCHANGED <<redis, has_signal_counters, calls>>

\* Consumer c calls reset().
Reset(c) ==
    /\ signal_counters' =
          [signal_counters EXCEPT ![c] =
              IF has_signal_counters[c] THEN EmptyDict ELSE @]
    /\ delivered' = [delivered EXCEPT ![c] = [k \in Keys |-> {}]]
    /\ seen' = [seen EXCEPT ![c] = [k \in Keys |-> {}]]
    /\ last' = Call("reset", c, <<>>, TimeoutNone, FALSE, "none", NoQuery, <<>>,
                    <<>>)
    /\ justReset' = [justReset EXCEPT ![c] = TRUE]
    /\ UNCHANGED <<redis, has_signal_counters, calls>>

\* One step of the system: the calls that the workers in producers and in
\* consumers can make, with arguments from lists and timeouts.
Steps(producers, consumers, lists, timeouts) ==
    \/ \E w \in producers, signal \in Signals : Send(w, signal)
    \/ PublishActorDied
    \/ \E c \in consumers, sources \in lists, timeout \in timeouts :
          Receive(c, sources, timeout)
    \/ \E c \in consumers, sources \in lists : Forget(c, sources)
    \/ \E c \in consumers : Reset(c)

\* One consumer reads the streams of both producers.
Next == Steps(Producers, {"driver"}, SourceLists, {TimeoutNone, Seconds(0)})

Spec == Init /\ [][Next]_vars

\* Two consumers read the stream of actor a1 through one handle.
NextTwo == Steps({ActorWorker}, Consumers, {<<HandleA1>>}, {Seconds(0)})

SpecTwo == Init /\ [][NextTwo]_vars

\* One consumer reads the stream of actor a1 with every timeout.
ActorLists == { <<HandleA1>>, <<HandleA1, HandleA2>> }

NextTimeouts == Steps({ActorWorker}, {"driver"}, ActorLists, Timeouts)

SpecTimeouts == Init /\ [][NextTimeouts]_vars

\* One consumer reads the stream of actor a1, which also sends a signal the
\* consumer cannot load, over a connection to Redis that can fail.
NextErrors ==
    \/ Steps({ActorWorker}, {"driver"}, ActorLists, {Seconds(0)})
    \/ Send(ActorWorker, Unloadable)
    \/ \E sources \in ActorLists : ReceiveFails("driver", sources, Seconds(0))
    \/ \E signal \in Signals : SendFails(ActorWorker, signal)

SpecErrors == Init /\ [][NextErrors]_vars

\* Two threads of the driver read the stream of actor a1 at the same time.
NextThreads ==
    \/ \E signal \in Signals : Send(ActorWorker, signal)
    \/ \E th \in Threads, op \in {"receive", "forget"} :
          Issue("driver", th, op, <<HandleA1>>, Seconds(0))
    \/ \E th \in Threads : TimeOut(th)
    \/ \E th \in Threads : Return("driver", th)

SpecThreads == Init /\ [][NextThreads]_vars

\* ---------------------------------------------------------------------------
\* Vocabulary of the properties
\* ---------------------------------------------------------------------------
\* The cursor consumer c holds for the stream key ("0" when it holds none).
Cursor(c, key) == Lookup(signal_counters[c], hex_to_binary(key))

\* The key of the stream a source denotes.
KeyOf(source) == hex(_get_task_id(source))

\* The signal an entry's value stands for: the termination signal for the
\* reserved value, otherwise the signal whose encoding the value is.
SignalOf(value) ==
    IF value = ACTOR_DIED_STR THEN ActorDiedSignal
    ELSE CHOOSE signal \in Signals : encoded_signal(signal) = value

\* The signals a result list pairs with source s, in the order of the list.
SignalsFor(results, s) ==
    LET pairs == SelectSeq(results, LAMBDA p : p[1] = s)
    IN [i \in 1..Len(pairs) |-> pairs[i][2]]

\* The signals of the entries of a stream after id, in append order.
SignalsAfter(store, key, id) ==
    [i \in 1..(Len(store[key]) - id) |-> SignalOf(store[key][id + i])]

\* The id the query of call carried for key.
QueryId(call, key) ==
    LET q == call.query[1]
        i == CHOOSE n \in 1..Len(q.keys) : q.keys[n] = key
    IN q.ids[i]

\* The last step was a receive() that passed the timeout validation.
ReceiveReturned == last.op = "receive" /\ last.raised = "none"

\* The last step was a receive() or a forget() that issued its read.
ReadServed == last.op \in {"receive", "forget"} /\ last.raised = "none"

\* ---------------------------------------------------------------------------
\* C1
\* ---------------------------------------------------------------------------
\* C1: while a consumer does not reset, no entry of a stream is returned to it
\* by two different receive() calls, whatever the entry's payload: a receive()
\* returns no entry that an earlier receive() of the same consumer returned
\* since the consumer's last reset.
C1_NeverRedelivered ==
    [][ last'.op = "receive" =>
            \A k \in Keys :
                AnswerIds(last'.answers, k) \cap delivered[last'.who][k] = {} ]_vars

\* ---------------------------------------------------------------------------
\* C2
\* ---------------------------------------------------------------------------
\* C2: a receive() returns, for every source S in its list, every entry of S's
\* stream with an id greater than the consumer's cursor and every entry that no
\* receive() or forget() of the consumer has read since its last reset (all of
\* the stream on the consumer's first receive on S): no appended entry is
\* skipped.
C2_NothingSkipped ==
    [][ (last'.op = "receive" /\ last'.raised = "none") =>
            \A s \in Range(last'.sources) :
                \A i \in 1..Len(redis[KeyOf(s)]) :
                    (i > Cursor(last'.who, KeyOf(s)) \/ i \notin seen[last'.who][KeyOf(s)])
                    => /\ i \in AnswerIds(last'.answers, KeyOf(s))
                       /\ <<s, SignalOf(redis[KeyOf(s)][i])>> \in Range(last'.results) ]_vars

\* A second receive() on a stream returned the entries appended since the first.
C2_Witness ==
    /\ ReceiveReturned
    /\ last.sources = <<HandleA1>>
    /\ QueryId(last, "a1") = 1
    /\ Len(redis["a1"]) = 3
    /\ AnswerIds(last.answers, "a1") = {2, 3}
    /\ Len(last.results) = 2

\* ---------------------------------------------------------------------------
\* C3
\* ---------------------------------------------------------------------------
\* C3: in the list a receive() returns, the signals paired with a source are
\* the signals of the entries of the source's stream after the cursor the query
\* carried, in the order the entries were appended.
C3_AppendOrder ==
    ReceiveReturned =>
        \A s \in Range(last.sources) :
            SignalsFor(last.results, s)
                = SignalsAfter(redis, KeyOf(s), QueryId(last, KeyOf(s)))

\* A then B were sent on the actor's stream and a consumer with no cursor got
\* A before B.
C3_Witness ==
    /\ ReceiveReturned
    /\ last.sources = <<HandleA1>>
    /\ redis["a1"] = <<encoded_signal("A"), encoded_signal("B")>>
    /\ QueryId(last, "a1") = 0
    /\ last.results = <<<<HandleA1, "A">>, <<HandleA1, "B">>>>

\* ---------------------------------------------------------------------------
\* C4
\* ---------------------------------------------------------------------------
\* C4: the cursor of a consumer for a stream never decreases in a step that is
\* not a reset() of that consumer.
C4_CursorMonotonic ==
    [][ \A c \in Consumers, k \in Keys :
            \/ last'.op = "reset" /\ last'.who = c
            \/ Cursor(c, k)' >= Cursor(c, k) ]_vars

\* A read moved a cursor that was already past the start of its stream.
C4_Witness ==
    /\ ReadServed
    /\ \E i \in 1..Len(last.query[1].keys) :
          /\ last.query[1].ids[i] > 0
          /\ Cursor(last.who, last.query[1].keys[i]) > last.query[1].ids[i]

\* ---------------------------------------------------------------------------
\* C5
\* ---------------------------------------------------------------------------
\* C5: forget(sources) followed immediately by receive(sources, timeout=0) of
\* the same consumer, with no send in between, returns the empty list, whatever
\* the streams contain.
C5_ForgetThenReceiveEmpty ==
    [][ ( /\ last.op = "forget"
          /\ last'.op = "receive"
          /\ last'.who = last.who
          /\ last'.sources = last.sources
          /\ last'.timeout = Seconds(0) )
        => last'.results = <<>> ]_vars

\* ---------------------------------------------------------------------------
\* C6
\* ---------------------------------------------------------------------------
\* C6: after a receive() or forget() whose read returned entries of a stream,
\* the consumer's cursor for the stream is the id of the last entry returned,
\* whatever that entry's payload.
C6_CursorAtLastEntry ==
    ReadServed =>
        \A i \in 1..Len(last.answers) :
            Cursor(last.who, last.answers[i][1])
                = last.answers[i][2][Len(last.answers[i][2])][1]

\* ---------------------------------------------------------------------------
\* C7
\* ---------------------------------------------------------------------------
\* C7: reset() sets every cursor of the consumer back to "0", and the
\* consumer's next receive() carries the cursor "0" for every stream and
\* returns what a first-ever receive() of the same sources returns on the same
\* streams: for every source, all signals of its stream in append order.
C7_ResetReplays ==
    /\ (last.op = "reset" => \A k \in Keys : Cursor(last.who, k) = 0)
    /\ (ReceiveReturned /\ last.after_reset) =>
          /\ \A i \in 1..Len(last.query[1].ids) : last.query[1].ids[i] = 0
          /\ \A s \in Range(last.sources) :
                SignalsFor(last.results, s) = SignalsAfter(redis, KeyOf(s), 0)
          /\ last.results
                = receive(redis, EmptyDict, FALSE, last.sources, last.timeout).results

\* A consumer that had consumed the actor's stream reset and then received the
\* two entries of the stream again.
C7_Witness ==
    /\ ReceiveReturned
    /\ last.after_reset
    /\ last.sources = <<HandleA1>>
    /\ Len(redis["a1"]) = 2
    /\ Len(last.results) = 2
    /\ delivered[last.who]["a1"] = {1, 2}

\* ---------------------------------------------------------------------------
\* C8
\* ---------------------------------------------------------------------------
\* C8: when k sources of the list denote one stream and the read returned n
\* entries of it, receive() returns k*n pairs for that stream: for each of
\* those sources the n signals, one pair per entry.
C8_FanOut ==
    ReceiveReturned =>
        /\ \A key \in Keys :
              Len(SelectSeq(last.results, LAMBDA p : KeyOf(p[1]) = key))
                  = Cardinality({ i \in 1..Len(last.sources) :
                                      KeyOf(last.sources[i]) = key })
                    * Cardinality(AnswerIds(last.answers, key))
        /\ \A s \in Range(last.sources) :
              Len(SignalsFor(last.results, s))
                  = Cardinality(AnswerIds(last.answers, KeyOf(s)))

\* One signal was published and receive() of two handles of the stream
\* returned it once per handle.
C8_Witness ==
    /\ ReceiveReturned
    /\ last.sources = <<HandleA1, HandleA2>>
    /\ redis["a1"] = <<encoded_signal("A")>>
    /\ QueryId(last, "a1") = 0
    /\ last.results = <<<<HandleA1, "A">>, <<HandleA2, "A">>>>

\* ---------------------------------------------------------------------------
\* C9
\* ---------------------------------------------------------------------------
\* C9: a receive(), forget() or reset() of one consumer leaves the cursors of
\* every other consumer unchanged, and a consumer that has read nothing from a
\* stream since its start or last reset gets all signals of the stream from
\* receive(), whatever the other consumers did.
C9_Independent ==
    [][ /\ \A c \in Consumers :
              last'.who # c =>
                  /\ signal_counters'[c] = signal_counters[c]
                  /\ has_signal_counters'[c] = has_signal_counters[c]
        /\ (last'.op = "receive" /\ last'.raised = "none") =>
              \A s \in Range(last'.sources) :
                  seen[last'.who][KeyOf(s)] = {} =>
                      SignalsFor(last'.results, s) = SignalsAfter(redis, KeyOf(s), 0)
      ]_vars

\* Both consumers received the same two entries of the actor's stream.
C9_Witness ==
    /\ ReceiveReturned
    /\ last.who = "worker2"
    /\ Len(redis["a1"]) = 2
    /\ Len(last.results) = 2
    /\ delivered["driver"]["a1"] = {1, 2}
    /\ delivered["worker2"]["a1"] = {1, 2}
    /\ Cursor("driver", "a1") > 0

\* ---------------------------------------------------------------------------
\* C10
\* ---------------------------------------------------------------------------
\* C10: receive() with a negative timeout raises the error of the timeout
\* check and does nothing else: it sends no query, returns nothing, appends
\* nothing and leaves the consumer's cursor dictionary as it was.
C10_NegativeTimeout ==
    [][ (last'.op = "receive" /\ ~last'.timeout.isNone /\ last'.timeout.us < 0) =>
            /\ last'.raised = "ValueError"
            /\ last'.query = NoQuery
            /\ last'.answers = <<>>
            /\ last'.results = <<>>
            /\ UNCHANGED <<redis, signal_counters, has_signal_counters>> ]_vars

\* receive() with timeout -1 raised while the store held an entry and the
\* consumer had no cursor dictionary yet.
C10_Witness ==
    /\ last.op = "receive"
    /\ last.timeout = Seconds(-1000000)
    /\ last.raised = "ValueError"
    /\ Len(redis["a1"]) > 0
    /\ ~has_signal_counters[last.who]

\* ---------------------------------------------------------------------------
\* C11
\* ---------------------------------------------------------------------------
\* The values of the entries of a reply.
AnswerValues(answers) ==
    UNION { { answers[i][2][j][2][2] : j \in 1..Len(answers[i][2]) } :
            i \in 1..Len(answers) }

\* C11: a receive() whose reply holds only ACTOR_DIED_STR entries and entries
\* written by send() does not raise, and for every source of the list and every
\* entry of the source's stream in the reply it returns one pair: the
\* termination signal when the entry's value is ACTOR_DIED_STR (the value is
\* not given to the codec, which would raise on it), otherwise what the codec
\* loads from the value.
C11_TerminationSignal ==
    ( /\ last.op = "receive"
      /\ last.query # NoQuery
      /\ AnswerValues(last.answers)
            \subseteq {ACTOR_DIED_STR} \cup { encoded_signal(x) : x \in Signals } )
    => /\ last.raised = "none"
       /\ \A i \in 1..Len(last.answers) :
             \A s \in Range(last.sources) :
                 KeyOf(s) = last.answers[i][1] =>
                     /\ Len(SignalsFor(last.results, s)) = Len(last.answers[i][2])
                     /\ \A j \in 1..Len(last.answers[i][2]) :
                           SignalsFor(last.results, s)[j]
                               = IF last.answers[i][2][j][2][2] = ACTOR_DIED_STR
                                 THEN ActorDiedSignal
                                 ELSE cloudpickle_loads(
                                          hex_to_binary(last.answers[i][2][j][2][2]))

\* The actor sent A and died; receive() of two handles of the actor returned A
\* and the termination signal, each once per handle.
C11_Witness ==
    /\ ReceiveReturned
    /\ last.sources = <<HandleA1, HandleA2>>
    /\ redis["a1"] = <<encoded_signal("A"), ACTOR_DIED_STR>>
    /\ QueryId(last, "a1") = 0
    /\ last.results = << <<HandleA1, "A">>, <<HandleA2, "A">>,
                         <<HandleA1, ActorDiedSignal>>,
                         <<HandleA2, ActorDiedSignal>> >>

\* ---------------------------------------------------------------------------
\* C12
\* ---------------------------------------------------------------------------
\* C12: a receive() whose timeout is not negative does not raise on the
\* timeout and sends its query; the query carries 1 ms for a positive timeout
\* below 1 ms, the whole milliseconds of a timeout of at least 1 ms, and
\* 10^15 ms for the timeout None: the value is always finite and positive.
C12_TimeoutClamp ==
    (last.op = "receive" /\ (last.timeout.isNone \/ last.timeout.us >= 0)) =>
        /\ last.raised # "ValueError"
        /\ last.query # NoQuery
        /\ LET ms == last.query[1].timeout_ms
               t == last.timeout
           IN /\ (~t.isNone /\ t.us > 0 /\ t.us < 1000) => ms = [hi |-> 0, ms |-> 1]
              /\ (~t.isNone /\ t.us >= 1000) =>
                    /\ ms.hi = 0
                    /\ ms.ms * 1000 <= t.us
                    /\ t.us < (ms.ms + 1) * 1000
              /\ t.isNone => ms = [hi |-> 1, ms |-> 0]
              /\ ms.hi >= 0 /\ ms.ms >= 0 /\ (ms.hi > 0 \/ ms.ms > 0)

\* receive() with a timeout of half a millisecond sent a query with 1 ms.
C12_Witness ==
    /\ last.op = "receive"
    /\ last.timeout = Seconds(500)
    /\ last.raised = "none"
    /\ last.query[1].timeout_ms = [hi |-> 0, ms |-> 1]

\* ---------------------------------------------------------------------------
\* C14
\* ---------------------------------------------------------------------------
\* C14: a receive() that passes the timeout validation sends exactly one
\* read; the keys of the read are the streams the sources denote, each once,
\* and the id at each position is the cursor the consumer held for the key at
\* that position when it called ("0" when it held none).
C14_OneReadPerCall ==
    [][(last'.op = "receive" /\ last'.raised # "ValueError") =>
          /\ Len(last'.query) = 1
          /\ LET keys == last'.query[1].keys
                 ids == last'.query[1].ids
             IN /\ Len(ids) = Len(keys)
                /\ \A i, j \in 1..Len(keys) : keys[i] = keys[j] => i = j
                /\ Range(keys) =
                      { KeyOf(last'.sources[n]) : n \in 1..Len(last'.sources) }
                /\ \A i \in 1..Len(keys) : ids[i] = Cursor(last'.who, keys[i])]_vars

\* receive() of four sources that denote two streams sent a read of two keys,
\* one of them with a cursor other than "0".
C14_Witness ==
    /\ last.op = "receive"
    /\ last.raised = "none"
    /\ last.sources = <<Object1, HandleA1, Object2, TaskHandle>>
    /\ Len(last.query) = 1
    /\ Len(last.query[1].keys) = 2
    /\ \E i \in 1..2 : last.query[1].ids[i] > 0

\* ---------------------------------------------------------------------------
\* C17
\* ---------------------------------------------------------------------------
\* Source s denotes the producer worker: a handle of the actor whose methods
\* the worker runs, or, for a worker that runs a plain task, the id of the
\* task or an object the task returned.
Denotes(s, worker) ==
    IF worker.actor_id # NilId
    THEN s.type = "ActorHandle" /\ s.id = worker.actor_id
    ELSE \/ s.type = "TaskID" /\ s.id = worker.current_task_id
         \/ s.type = "ObjectID" /\ worker.current_task_id = TaskId
                                /\ s \in {Object1, Object2}

AllSources == {HandleA1, HandleA2, Object1, Object2, TaskHandle}

\* C17: send(signal) puts the encoded signal at the end of the stream that
\* receive() reads for every source denoting the sender, adds exactly one
\* entry to the store, leaves the streams of the other sources as they were
\* and changes no cursor.
C17_SendReachesReaders ==
    [][\A w \in Producers, signal \in Signals :
          Send(w, signal) =>
             /\ \A s \in AllSources :
                   IF Denotes(s, w)
                   THEN redis'[KeyOf(s)] =
                           Append(redis[KeyOf(s)], encoded_signal(signal))
                   ELSE redis'[KeyOf(s)] = redis[KeyOf(s)]
             /\ Entries(redis') = Entries(redis) + 1
             /\ signal_counters' = signal_counters
             /\ has_signal_counters' = has_signal_counters]_vars

\* The task worker sent a signal while the actor's stream held one too.
C17_Witness ==
    /\ last.op = "send"
    /\ last.who = KeyOf(TaskHandle)
    /\ Len(redis[KeyOf(TaskHandle)]) >= 1
    /\ Len(redis[KeyOf(HandleA1)]) >= 1

\* ---------------------------------------------------------------------------
\* C19
\* ---------------------------------------------------------------------------
\* C19: every cursor a consumer holds is "0" or the id of an entry that is in
\* the stream and that a read of receive() or forget() brought to the consumer
\* since its last reset(); no cursor lies beyond the last entry of its stream.
C19_CursorIsReadEntry ==
    \A c \in Consumers, k \in Keys :
        \/ Cursor(c, k) = 0
        \/ /\ Cursor(c, k) \in 1..Len(redis[k])
           /\ Cursor(c, k) \in seen[c][k]

\* A consumer holds a cursor on the second of three entries of a stream.
C19_Witness ==
    \E c \in Consumers, k \in Keys :
        /\ Cursor(c, k) = 2
        /\ Len(redis[k]) = 3

\* ---------------------------------------------------------------------------
\* C16
\* ---------------------------------------------------------------------------
\* C16: a call that ends with the ConnectionError of the store returns no
\* list, sent at most one read and added at most one entry to the store (it
\* was not tried again), and leaves every cursor of every consumer, and the
\* record of what was delivered, as they were before the call.
C16_TransportErrorPropagates ==
    [][last'.raised = "ConnectionError" =>
          /\ last'.results = <<>>
          /\ Len(last'.query) <= 1
          /\ Entries(redis') <= Entries(redis) + 1
          /\ \A c \in Consumers, k \in Keys :
                Lookup(signal_counters'[c], hex_to_binary(k)) = Cursor(c, k)
          /\ delivered' = delivered]_vars

\* receive() failed with a ConnectionError while the consumer held a cursor
\* other than "0" and the stream held an entry after it.
C16_Witness ==
    /\ last.op = "receive"
    /\ last.raised = "ConnectionError"
    /\ \E k \in Keys :
          /\ Cursor(last.who, k) > 0
          /\ Len(redis[k]) > Cursor(last.who, k)

\* ---------------------------------------------------------------------------
\* C18
\* ---------------------------------------------------------------------------
\* C18: after a receive() that failed while loading an entry, the cursor of
\* each stream lies before every entry of the reply that no receive() has
\* returned to the caller, so that a later receive() still returns them.
C18_FailedReceiveKeepsEntries ==
    (last.op = "receive" /\ last.raised = "DecodeError") =>
        \A k \in Keys :
            \A id \in AnswerIds(last.answers, k) \ delivered[last.who][k] :
                Cursor(last.who, k) < id

\* ---------------------------------------------------------------------------
\* C13
\* ---------------------------------------------------------------------------
\* C13: when threads of one consumer run receive() and forget() at the same
\* time, no cursor of the consumer ever moves backwards and no receive()
\* returns an entry that a receive() has returned to the consumer before.
C13_ConcurrentCallsSerialized ==
    [][/\ \A c \in Consumers, k \in Keys :
             Lookup(signal_counters'[c], hex_to_binary(k)) >= Cursor(c, k)
       /\ \A th \in Threads :
             ( /\ calls[th].pc = "replied"
               /\ calls'[th].pc = "idle"
               /\ calls[th].op = "receive" ) =>
                 \A k \in Keys :
                     AnswerIds(calls[th].answers, k) \cap delivered["driver"][k] = {}]_vars

\* ---------------------------------------------------------------------------
\* C15
\* ---------------------------------------------------------------------------
\* C15: the reply to the read of a receive() with timeout 0, or of a forget(),
\* holds only entries that were in the stream when the call sent the read.
C15_ZeroTimeoutNeverWaits ==
    \A th \in Threads :
        (calls[th].pc = "replied" /\ calls[th].timeout = Seconds(0)) =>
            \A k \in Keys :
                \A id \in AnswerIds(calls[th].answers, k) : id <= calls[th].issued[k]

====
